---- MODULE Spec2Model ----
(***************************************************************************)
(* genzero: a single-producer, multi-consumer "latest value" channel built *)
(* on epoch-based reclamation.                                             *)
(*                                                                         *)
(* The handles (Sender, Receiver, Borrow) are modelled from src/src/lib.rs *)
(* one action per atomic step of each method.  The epoch engine the        *)
(* handles call (pin, defer_destroy, flush, try_advance, collect) is an    *)
(* external collaborator; it is modelled from the specification's section  *)
(* 4.1 together with what lib.rs says about it at its call sites (the      *)
(* "thread-local cache of deferred deletes" that flush() empties, and the  *)
(* guard that a Borrow keeps).                                             *)
(***************************************************************************)
EXTENDS Integers, Sequences, FiniteSets, TLC

\* ------------------------------------------------------------------ bounds
NThreads == 2      \* threads; thread Writer owns the Sender
MaxSends == 2      \* send() calls the writer makes
MaxEpoch == 3      \* cap on the global epoch counter
MaxBorrows == 1    \* Borrows one thread holds at a time

Threads == 1..NThreads
Writer == 1
Null == 0          \* Shared::null()
Addrs == 1..(MaxSends + 1)
Payloads == 0..MaxSends

VARIABLES
    slot,         \* Arc<Atomic<T>>: Null or the address of the current value
    mem,          \* heap: address -> "unalloc" | "live" | "freed"
    val,          \* heap: address -> payload written at allocation
    tx,           \* TRUE while the Sender handle exists
    rx,           \* rx[t]: thread t holds a Receiver (clone)
    count,        \* the writer's counter: number of send() calls started
    pc,           \* pc[t]: position of thread t inside a method
    reg,          \* reg[t]: the pointer the method in progress holds (prev / v)
    guardCount,   \* participant: number of live guards of thread t
    localEpoch,   \* participant: global epoch recorded by the outermost pin
    bag,          \* thread-local cache of deferred deletes
    queue,        \* global garbage queue: set of [ptr, epoch]
    globalEpoch,  \* the global epoch counter
    borrows,      \* borrows[t]: sequence of Borrow.shared held by thread t
    res,          \* res[t]: what t's last recv() returned, or None when its last
                  \* borrow() returned None: [kind, v] with kind "unset" (nothing
                  \* returned yet), "none" or "some" (Some(v))
    hi,           \* payload of the last non-empty recv() of t (history)
    fresh,        \* fresh[t]: t's recv() began with no send() in progress and the
                  \* Sender not being destroyed, and no send() began since (history)
    snap,         \* snap[t][i]: payload read when borrows[t][i] was made (history)
    hazard,       \* hazard[a]: threads pinned since before a left the slot (history)
    swapEpoch,    \* swapEpoch[a]: global epoch when a was swapped out (history,
                  \* recorded by SendSwapTagged and DropSwapTagged only)
    uaf           \* TRUE once freed or unallocated memory has been read (history)

chan == <<slot, mem, val>>
hand == <<tx, rx, count>>
part == <<guardCount, localEpoch, hazard, swapEpoch>>
garb == <<bag, queue, globalEpoch>>
held == <<borrows, snap>>
seen == <<res, hi, fresh, uaf>>
vars == <<chan, hand, pc, reg, part, garb, held, seen>>

\* ------------------------------------------------------------ epoch engine
Pinned(t) == guardCount[t] > 0

\* pin(): reuse the thread-local participant; only the outermost pin records
\* the global epoch and marks the participant active.
PinEpochs(t) == IF Pinned(t) THEN localEpoch
                ELSE [localEpoch EXCEPT ![t] = globalEpoch]
Pin(t) ==
    /\ guardCount' = [guardCount EXCEPT ![t] = @ + 1]
    /\ localEpoch' = PinEpochs(t)
    /\ UNCHANGED <<hazard, swapEpoch>>

\* unpin (a guard is dropped): only the last guard marks the participant
\* inactive.
UnpinEpochs(t) == IF guardCount[t] = 1 THEN [localEpoch EXCEPT ![t] = 0]
                  ELSE localEpoch
Unpin(t) ==
    /\ guardCount' = [guardCount EXCEPT ![t] = @ - 1]
    /\ localEpoch' = UnpinEpochs(t)
    /\ hazard' = IF guardCount[t] = 1 THEN [a \in Addrs |-> hazard[a] \ {t}]
                 ELSE hazard
    /\ UNCHANGED swapEpoch

\* try_advance(): one step forward iff no active participant lags behind.
CanAdvance == \A t \in Threads : Pinned(t) => localEpoch[t] = globalEpoch
AdvancedEpoch == IF CanAdvance /\ globalEpoch < MaxEpoch THEN globalEpoch + 1
                 ELSE globalEpoch

\* collect(): the entries at least two steps behind the epoch e.
Expired(q, e) == {g \in q : e - g.epoch >= 2}
FreeAll(gs) == [a \in Addrs |-> IF \E g \in gs : g.ptr = a THEN "freed" ELSE mem[a]]

\* push_bag: the thread-local bag is sealed with the global epoch of that moment.
Sealed(t) == {[ptr |-> a, epoch |-> globalEpoch] : a \in bag[t]}

\* defer_destroy(p): p goes into the thread-local bag; a bag that is full (of
\* this or of any other garbage of the thread) is first sealed and pushed.
Defer(t, p, full) ==
    /\ bag' = [bag EXCEPT ![t] = IF full THEN {p} ELSE @ \cup {p}]
    /\ queue' = IF full THEN queue \cup Sealed(t) ELSE queue
    /\ UNCHANGED globalEpoch

\* Option<T> as recv() returns it.
Unset == [kind |-> "unset", v |-> 0]
None == [kind |-> "none", v |-> 0]
Some(v) == [kind |-> "some", v |-> v]

\* Reading through a raw pointer: the payload if the value is live, anything
\* if it has been freed (undefined behaviour).
Reads(a) == IF mem[a] = "live" THEN {val[a]} ELSE Payloads

TypeOK ==
    /\ slot \in {Null} \cup Addrs
    /\ mem \in [Addrs -> {"unalloc", "live", "freed"}]
    /\ val \in [Addrs -> Payloads]
    /\ tx \in BOOLEAN /\ rx \in [Threads -> BOOLEAN]
    /\ count \in 0..MaxSends
    /\ guardCount \in [Threads -> 0..(MaxBorrows + 1)]
    /\ localEpoch \in [Threads -> 0..MaxEpoch]
    /\ globalEpoch \in 0..MaxEpoch
    /\ bag \in [Threads -> SUBSET Addrs]
    /\ \A g \in queue : g.ptr \in Addrs /\ g.epoch \in 0..MaxEpoch
    /\ \A t \in Threads : Len(borrows[t]) <= MaxBorrows
    /\ res \in [Threads -> {Unset, None} \cup {Some(v) : v \in Payloads}]
    /\ uaf \in BOOLEAN
    /\ swapEpoch \in [Addrs -> 0..MaxEpoch]

\* ------------------------------------------------------------------- init
\* new(v): the slot holds a first value (payload 0); empty(): the slot is null.
InitChannel(withValue) ==
    /\ slot = IF withValue THEN 1 ELSE Null
    /\ mem = [a \in Addrs |-> IF withValue /\ a = 1 THEN "live" ELSE "unalloc"]
    /\ val = [a \in Addrs |-> 0]

InitRest ==
    /\ tx = TRUE
    /\ count = 0
    /\ pc = [t \in Threads |-> "idle"]
    /\ reg = [t \in Threads |-> Null]
    /\ guardCount = [t \in Threads |-> 0]
    /\ localEpoch = [t \in Threads |-> 0]
    /\ bag = [t \in Threads |-> {}]
    /\ queue = {}
    /\ globalEpoch = 0
    /\ borrows = [t \in Threads |-> <<>>]
    /\ res = [t \in Threads |-> Unset]
    /\ hi = [t \in Threads |-> 0]
    /\ fresh = [t \in Threads |-> FALSE]
    /\ snap = [t \in Threads |-> <<>>]
    /\ hazard = [a \in Addrs |-> {}]
    /\ swapEpoch = [a \in Addrs |-> 0]
    /\ uaf = FALSE

\* new() or empty(); the Receiver is with one thread, which may clone it.
Init ==
    /\ \E withValue \in BOOLEAN : InitChannel(withValue)
    /\ \E t0 \in Threads : rx = [t \in Threads |-> t = t0]
    /\ InitRest

\* ----------------------------------------------------------------- Sender
SenderPcs == {"s_swap", "s_defer", "d_swap", "d_defer", "d_flush", "d_unpin"}

\* Owned::new(v): the next unused address.
NewAddr == CHOOSE a \in Addrs :
               mem[a] = "unalloc" /\ \A b \in Addrs : b < a => mem[b] # "unalloc"

\* The value leaving the slot may still be held by every participant that is
\* pinned at this moment.
Swapped(old) == IF old = Null THEN hazard
                ELSE [hazard EXCEPT ![old] = {u \in Threads : Pinned(u)}]
\* ... and it leaves the slot at the global epoch of this moment.
SwappedAt(old) == IF old = Null THEN swapEpoch
                  ELSE [swapEpoch EXCEPT ![old] = globalEpoch]

\* send, line 119: let guard = pin();
SendPin(t) ==
    /\ t = Writer /\ tx /\ pc[t] = "idle" /\ count < MaxSends
    /\ count' = count + 1
    /\ Pin(t)
    /\ pc' = [pc EXCEPT ![t] = "s_swap"]
    /\ fresh' = [u \in Threads |-> FALSE]
    /\ UNCHANGED <<chan, tx, rx, reg, garb, held, res, hi, uaf>>
\* A send that takes the previous value out of the slot (a swap with null)
\* while the new value is not stored yet.
SendSwapEmptiesSlot(t) ==
    /\ pc[t] = "s_swap"
    /\ mem' = [mem EXCEPT ![NewAddr] = "live"]
    /\ val' = [val EXCEPT ![NewAddr] = count]
    /\ slot' = Null
    /\ reg' = [reg EXCEPT ![t] = slot]
    /\ hazard' = Swapped(slot)
    /\ pc' = [pc EXCEPT ![t] = "s_defer"]
    /\ UNCHANGED <<hand, guardCount, localEpoch, swapEpoch, garb, held, seen>>

\* A send that publishes only into an empty slot (a compare-exchange against
\* null) and drops the new value otherwise.
SendSwapFirstOnly(t) ==
    /\ pc[t] = "s_swap"
    /\ IF slot = Null
         THEN /\ mem' = [mem EXCEPT ![NewAddr] = "live"]
              /\ val' = [val EXCEPT ![NewAddr] = count]
              /\ slot' = NewAddr
         ELSE UNCHANGED chan
    /\ reg' = [reg EXCEPT ![t] = Null]
    /\ pc' = [pc EXCEPT ![t] = "s_defer"]
    /\ UNCHANGED <<hand, part, garb, held, seen>>

\* send, line 120: let prev = self.inner_tx.swap(Owned::new(v), Release, &guard);
SendSwap(t) ==
    /\ pc[t] = "s_swap"
    /\ mem' = [mem EXCEPT ![NewAddr] = "live"]
    /\ val' = [val EXCEPT ![NewAddr] = count]
    /\ slot' = NewAddr
    /\ reg' = [reg EXCEPT ![t] = slot]
    /\ hazard' = Swapped(slot)
    /\ pc' = [pc EXCEPT ![t] = "s_defer"]
    /\ UNCHANGED <<hand, guardCount, localEpoch, swapEpoch, garb, held, seen>>
\* A send that drops the previous pointer without marking it for deletion.
SendDeferLeaks(t) ==
    /\ pc[t] = "s_defer"
    /\ Unpin(t)
    /\ reg' = [reg EXCEPT ![t] = Null]
    /\ pc' = [pc EXCEPT ![t] = "idle"]
    /\ UNCHANGED <<chan, hand, garb, held, seen>>

\* A send that destroys the previous value at once instead of deferring it.
SendDeferDestroysNow(t) ==
    /\ pc[t] = "s_defer"
    /\ mem' = IF reg[t] # Null THEN [mem EXCEPT ![reg[t]] = "freed"] ELSE mem
    /\ Unpin(t)
    /\ reg' = [reg EXCEPT ![t] = Null]
    /\ pc' = [pc EXCEPT ![t] = "idle"]
    /\ UNCHANGED <<slot, val, hand, garb, held, seen>>

\* send, lines 121-126: if !prev.is_null() { guard.defer_destroy(prev) }, and
\* the guard is dropped when send returns.
SendDefer(t) ==
    /\ pc[t] = "s_defer"
    /\ IF reg[t] # Null
         THEN \E full \in BOOLEAN : Defer(t, reg[t], full)
         ELSE UNCHANGED garb
    /\ Unpin(t)
    /\ reg' = [reg EXCEPT ![t] = Null]
    /\ pc' = [pc EXCEPT ![t] = "idle"]
    /\ UNCHANGED <<chan, hand, held, seen>>

\* Drop for Sender, line 79: let guard = pin();
DropPin(t) ==
    /\ t = Writer /\ tx /\ pc[t] = "idle"
    /\ Pin(t)
    /\ pc' = [pc EXCEPT ![t] = "d_swap"]
    /\ UNCHANGED <<chan, hand, reg, garb, held, seen>>

\* A Sender::drop that leaves the value in the slot (it loads instead of
\* swapping in null) and still marks it for deletion.
DropSwapLeavesValue(t) ==
    /\ pc[t] = "d_swap"
    /\ reg' = [reg EXCEPT ![t] = slot]
    /\ hazard' = Swapped(slot)
    /\ pc' = [pc EXCEPT ![t] = "d_defer"]
    /\ UNCHANGED <<chan, hand, guardCount, localEpoch, swapEpoch, garb, held, seen>>

\* Drop for Sender, line 80: let v = self.inner_tx.swap(Shared::null(), SeqCst, &guard);
DropSwap(t) ==
    /\ pc[t] = "d_swap"
    /\ slot' = Null
    /\ reg' = [reg EXCEPT ![t] = slot]
    /\ hazard' = Swapped(slot)
    /\ pc' = [pc EXCEPT ![t] = "d_defer"]
    /\ UNCHANGED <<mem, val, hand, guardCount, localEpoch, swapEpoch, garb, held, seen>>

\* A Sender::drop that destroys the last value at once instead of deferring it.
DropDeferDestroysNow(t) ==
    /\ pc[t] = "d_defer"
    /\ mem' = IF reg[t] # Null THEN [mem EXCEPT ![reg[t]] = "freed"] ELSE mem
    /\ pc' = [pc EXCEPT ![t] = "d_flush"]
    /\ UNCHANGED <<slot, val, hand, reg, part, garb, held, seen>>

\* Drop for Sender, lines 83-87: if !v.is_null() { guard.defer_destroy(v) }
DropDefer(t) ==
    /\ pc[t] = "d_defer"
    /\ IF reg[t] # Null
         THEN \E full \in BOOLEAN : Defer(t, reg[t], full)
         ELSE UNCHANGED garb
    /\ pc' = [pc EXCEPT ![t] = "d_flush"]
    /\ UNCHANGED <<chan, hand, reg, part, held, seen>>
\* A flush that seals the bag with the epoch the writer pinned at.
DropFlushTagsPinEpoch(t) ==
    /\ pc[t] = "d_flush"
    /\ bag' = [bag EXCEPT ![t] = {}]
    /\ globalEpoch' = AdvancedEpoch
    /\ queue' = (queue \cup {[ptr |-> a, epoch |-> localEpoch[t]] : a \in bag[t]})
                    \ Expired(queue \cup {[ptr |-> a, epoch |-> localEpoch[t]] : a \in bag[t]},
                              AdvancedEpoch)
    /\ mem' = FreeAll(Expired(queue \cup {[ptr |-> a, epoch |-> localEpoch[t]] : a \in bag[t]},
                              AdvancedEpoch))
    /\ pc' = [pc EXCEPT ![t] = "d_unpin"]
    /\ UNCHANGED <<slot, val, hand, reg, part, held, seen>>

\* A flush that moves the global epoch forward without looking at the
\* participants.
DropFlushForcesAdvance(t) ==
    /\ pc[t] = "d_flush"
    /\ bag' = [bag EXCEPT ![t] = {}]
    /\ globalEpoch' = IF globalEpoch < MaxEpoch THEN globalEpoch + 1 ELSE globalEpoch
    /\ queue' = (queue \cup Sealed(t)) \ Expired(queue \cup Sealed(t), globalEpoch')
    /\ mem' = FreeAll(Expired(queue \cup Sealed(t), globalEpoch'))
    /\ pc' = [pc EXCEPT ![t] = "d_unpin"]
    /\ UNCHANGED <<slot, val, hand, reg, part, held, seen>>
\* A flush whose collect frees what is one epoch behind already.
DropFlushCollectsEarly(t) ==
    /\ pc[t] = "d_flush"
    /\ bag' = [bag EXCEPT ![t] = {}]
    /\ globalEpoch' = AdvancedEpoch
    /\ queue' = {g \in queue \cup Sealed(t) : AdvancedEpoch - g.epoch < 1}
    /\ mem' = FreeAll({g \in queue \cup Sealed(t) : AdvancedEpoch - g.epoch >= 1})
    /\ pc' = [pc EXCEPT ![t] = "d_unpin"]
    /\ UNCHANGED <<slot, val, hand, reg, part, held, seen>>

\* A flush that runs try_advance and collect but leaves the thread-local bag
\* where it is.
DropFlushCollectOnly(t) ==
    /\ pc[t] = "d_flush"
    /\ globalEpoch' = AdvancedEpoch
    /\ queue' = queue \ Expired(queue, AdvancedEpoch)
    /\ mem' = FreeAll(Expired(queue, AdvancedEpoch))
    /\ pc' = [pc EXCEPT ![t] = "d_unpin"]
    /\ UNCHANGED <<slot, val, hand, reg, part, bag, held, seen>>

\* A flush that waits until the garbage queue has drained.
DropFlushBlocks(t) ==
    /\ pc[t] = "d_flush"
    /\ (queue \cup Sealed(t)) \ Expired(queue \cup Sealed(t), AdvancedEpoch) = {}
    /\ bag' = [bag EXCEPT ![t] = {}]
    /\ globalEpoch' = AdvancedEpoch
    /\ queue' = {}
    /\ mem' = FreeAll(Expired(queue \cup Sealed(t), AdvancedEpoch))
    /\ pc' = [pc EXCEPT ![t] = "d_unpin"]
    /\ UNCHANGED <<slot, val, hand, reg, part, held, seen>>

\* Drop for Sender, line 90: guard.flush(): the thread-local bag is sealed and
\* pushed to the global queue, then one try_advance and one collect run.
DropFlush(t) ==
    /\ pc[t] = "d_flush"
    /\ bag' = [bag EXCEPT ![t] = {}]
    /\ globalEpoch' = AdvancedEpoch
    /\ queue' = (queue \cup Sealed(t)) \ Expired(queue \cup Sealed(t), AdvancedEpoch)
    /\ mem' = FreeAll(Expired(queue \cup Sealed(t), AdvancedEpoch))
    /\ pc' = [pc EXCEPT ![t] = "d_unpin"]
    /\ UNCHANGED <<slot, val, hand, reg, part, held, seen>>

\* Drop for Sender, line 91: the guard is dropped and the Sender is gone.
DropUnpin(t) ==
    /\ pc[t] = "d_unpin"
    /\ tx' = FALSE
    /\ Unpin(t)
    /\ reg' = [reg EXCEPT ![t] = Null]
    /\ pc' = [pc EXCEPT ![t] = "idle"]
    /\ UNCHANGED <<chan, rx, count, garb, held, seen>>

\* --------------------------------------------------------------- Receiver
\* recv, line 174: let guard = pin();
RecvPin(t) ==
    /\ rx[t] /\ pc[t] = "idle"
    /\ Pin(t)
    /\ pc' = [pc EXCEPT ![t] = "r_load"]
    /\ fresh' = [fresh EXCEPT ![t] = tx /\ pc[Writer] \notin SenderPcs]
    /\ UNCHANGED <<chan, hand, reg, garb, held, res, hi, uaf>>

\* A recv that loads under a temporary guard, dropped as soon as the load is done.
RecvLoadTempGuard(t) ==
    /\ pc[t] = "r_load"
    /\ IF slot = Null
         THEN /\ res' = [res EXCEPT ![t] = None]
              /\ fresh' = [fresh EXCEPT ![t] = FALSE]
              /\ pc' = [pc EXCEPT ![t] = "idle"]
              /\ UNCHANGED reg
         ELSE /\ reg' = [reg EXCEPT ![t] = slot]
              /\ pc' = [pc EXCEPT ![t] = "r_clone"]
              /\ UNCHANGED <<res, fresh>>
    /\ Unpin(t)
    /\ UNCHANGED <<chan, hand, garb, held, hi, uaf>>

\* recv, lines 175-180: let v = self.inner_rx.load_consume(&guard); a null
\* pointer gives None and the guard is dropped on return.
RecvLoad(t) ==
    /\ pc[t] = "r_load"
    /\ IF slot = Null
         THEN /\ res' = [res EXCEPT ![t] = None]
              /\ fresh' = [fresh EXCEPT ![t] = FALSE]
              /\ Unpin(t)
              /\ pc' = [pc EXCEPT ![t] = "idle"]
              /\ UNCHANGED reg
         ELSE /\ reg' = [reg EXCEPT ![t] = slot]
              /\ pc' = [pc EXCEPT ![t] = "r_clone"]
              /\ UNCHANGED <<res, fresh, part>>
    /\ UNCHANGED <<chan, hand, garb, held, hi, uaf>>

\* recv, lines 176-181: Some(b) => Some(b.clone()); the guard is dropped on return.
RecvClone(t) ==
    /\ pc[t] = "r_clone"
    /\ \E v \in Reads(reg[t]) :
          /\ res' = [res EXCEPT ![t] = Some(v)]
          /\ hi' = [hi EXCEPT ![t] = v]
    /\ uaf' = (uaf \/ mem[reg[t]] # "live")
    /\ fresh' = [fresh EXCEPT ![t] = FALSE]
    /\ Unpin(t)
    /\ reg' = [reg EXCEPT ![t] = Null]
    /\ pc' = [pc EXCEPT ![t] = "idle"]
    /\ UNCHANGED <<chan, hand, garb, held>>

\* borrow, line 156: let guard = pin();
BorrowPin(t) ==
    /\ rx[t] /\ pc[t] = "idle" /\ Len(borrows[t]) < MaxBorrows
    /\ Pin(t)
    /\ pc' = [pc EXCEPT ![t] = "b_load"]
    /\ UNCHANGED <<chan, hand, reg, garb, held, seen>>
\* A borrow that forgets its guard on the empty path (std::mem::forget), so
\* the pin taken for a borrow() that returned None is never released.
BorrowLoadKeepsPinOnNone(t) ==
    /\ pc[t] = "b_load"
    /\ IF slot = Null
         THEN /\ res' = [res EXCEPT ![t] = None]
              /\ UNCHANGED held
         ELSE /\ borrows' = [borrows EXCEPT ![t] = Append(@, slot)]
              /\ snap' = [snap EXCEPT ![t] = Append(@, val[slot])]
              /\ UNCHANGED res
    /\ pc' = [pc EXCEPT ![t] = "idle"]
    /\ UNCHANGED <<chan, hand, reg, part, garb, hi, fresh, uaf>>

\* A borrow whose guard is dropped when borrow() returns, the Borrow keeping
\* only the raw pointer.
BorrowLoadDropsGuard(t) ==
    /\ pc[t] = "b_load"
    /\ IF slot = Null
         THEN /\ res' = [res EXCEPT ![t] = None]
              /\ UNCHANGED held
         ELSE /\ borrows' = [borrows EXCEPT ![t] = Append(@, slot)]
              /\ snap' = [snap EXCEPT ![t] = Append(@, val[slot])]
              /\ UNCHANGED res
    /\ Unpin(t)
    /\ pc' = [pc EXCEPT ![t] = "idle"]
    /\ UNCHANGED <<chan, hand, reg, garb, hi, fresh, uaf>>

\* borrow, lines 157-165: load_consume; null gives None (the guard is dropped),
\* otherwise Some(Borrow { _guard: guard, shared }): the Borrow keeps the guard.
BorrowLoad(t) ==
    /\ pc[t] = "b_load"
    /\ IF slot = Null
         THEN /\ res' = [res EXCEPT ![t] = None]
              /\ Unpin(t)
              /\ UNCHANGED held
         ELSE /\ borrows' = [borrows EXCEPT ![t] = Append(@, slot)]
              /\ snap' = [snap EXCEPT ![t] = Append(@, val[slot])]
              /\ UNCHANGED <<res, part>>
    /\ pc' = [pc EXCEPT ![t] = "idle"]
    /\ UNCHANGED <<chan, hand, reg, garb, hi, fresh, uaf>>

\* Deref for Borrow, lines 143-147: unsafe { self.shared.as_ref().unwrap() }
\* A pure read: the reference it returns reads Reads(borrows[t][i]).
Deref(t, i) ==
    /\ pc[t] = "idle" /\ i \in 1..Len(borrows[t])
    /\ uaf' = (uaf \/ mem[borrows[t][i]] # "live")
    /\ UNCHANGED <<chan, hand, pc, reg, part, garb, held, res, hi, fresh>>

Without(s, i) == [j \in 1..(Len(s) - 1) |-> IF j < i THEN s[j] ELSE s[j + 1]]

\* A Borrow is destroyed: its _guard field is dropped.
DropBorrow(t, i) ==
    /\ pc[t] = "idle" /\ i \in 1..Len(borrows[t])
    /\ borrows' = [borrows EXCEPT ![t] = Without(@, i)]
    /\ snap' = [snap EXCEPT ![t] = Without(@, i)]
    /\ Unpin(t)
    /\ UNCHANGED <<chan, hand, pc, reg, garb, seen>>

\* #[derive(Clone)] for Receiver: thread t hands a clone to thread u.
CloneReceiver(t, u) ==
    /\ rx[t] /\ ~rx[u] /\ pc[t] = "idle"
    /\ rx' = [rx EXCEPT ![u] = TRUE]
    /\ UNCHANGED <<chan, tx, count, pc, reg, part, garb, held, seen>>

\* A Receiver is destroyed (it has no Drop: only the Arc count goes down).
DropReceiver(t) ==
    /\ rx[t] /\ pc[t] = "idle"
    /\ rx' = [rx EXCEPT ![t] = FALSE]
    /\ UNCHANGED <<chan, tx, count, pc, reg, part, garb, held, seen>>

\* ------------------------------------------- epoch engine, run by any thread
\* try_advance() called at any point: a no-op when a participant lags.
TryAdvance ==
    /\ globalEpoch' = AdvancedEpoch
    /\ UNCHANGED <<chan, hand, pc, reg, part, bag, queue, held, seen>>

\* collect() called at any point: frees what is expired at the global epoch.
Collect ==
    /\ queue' = queue \ Expired(queue, globalEpoch)
    /\ mem' = FreeAll(Expired(queue, globalEpoch))
    /\ UNCHANGED <<slot, val, hand, pc, reg, part, bag, globalEpoch, held, seen>>

\* One step of the method thread t is in.
Step(t) ==
    \/ SendSwap(t) \/ SendDefer(t)
    \/ DropSwap(t) \/ DropDefer(t) \/ DropFlush(t) \/ DropUnpin(t)
    \/ RecvLoad(t) \/ RecvClone(t)
    \/ BorrowLoad(t)

Next ==
    \/ \E t \in Threads : SendPin(t)
    \/ \E t \in Threads : SendSwap(t)
    \/ \E t \in Threads : SendDefer(t)
    \/ \E t \in Threads : DropPin(t)
    \/ \E t \in Threads : DropSwap(t)
    \/ \E t \in Threads : DropDefer(t)
    \/ \E t \in Threads : DropFlush(t)
    \/ \E t \in Threads : DropUnpin(t)
    \/ \E t \in Threads : RecvPin(t)
    \/ \E t \in Threads : RecvLoad(t)
    \/ \E t \in Threads : RecvClone(t)
    \/ \E t \in Threads : BorrowPin(t)
    \/ \E t \in Threads : BorrowLoad(t)
    \/ \E t \in Threads : \E i \in 1..MaxBorrows : Deref(t, i)
    \/ \E t \in Threads : \E i \in 1..MaxBorrows : DropBorrow(t, i)
    \/ \E t, u \in Threads : CloneReceiver(t, u)
    \/ \E t \in Threads : DropReceiver(t)
    \/ TryAdvance
    \/ Collect

Spec == Init /\ [][Next]_vars

\* ------------------------------------------------- the tests' poll loops
\* tests::one_writer_one_reader_random_waits, one_writer_one_reader_borrows and
\* examples/simple_read.rs: the channel is new(0), the writer thread sends
\* 1..N and drops the Sender when its closure ends; every other thread polls
\* until it sees Some(N) or None.
Readers == Threads \ {Writer}
Polling(t) == res[t].kind = "unset" \/ (res[t].kind = "some" /\ res[t].v # MaxSends)

InitPoll ==
    /\ InitChannel(TRUE)
    /\ rx = [t \in Threads |-> t \in Readers]
    /\ InitRest

\* The writer's closure ends after its last send: tx is dropped.
PollDropPin(t) == count = MaxSends /\ DropPin(t)

\* loop { let v = rx.recv(); if v == Some(N) || v == None { break; } ... }
PollRecvPin(t) ==
    t \in Readers /\ Polling(t) /\ Len(borrows[t]) = 0 /\ RecvPin(t)

\* loop { match rx.borrow() { ... } }
PollBorrowPin(t) ==
    t \in Readers /\ Polling(t) /\ Len(borrows[t]) = 0 /\ BorrowPin(t)

\* Some(b) if *b == N => break, _ => (): the Borrow is read and dropped.
PollBorrowCheck(t) ==
    /\ pc[t] = "idle" /\ Len(borrows[t]) = 1
    /\ \E v \in Reads(borrows[t][1]) : res' = [res EXCEPT ![t] = Some(v)]
    /\ uaf' = (uaf \/ mem[borrows[t][1]] # "live")
    /\ borrows' = [borrows EXCEPT ![t] = <<>>]
    /\ snap' = [snap EXCEPT ![t] = <<>>]
    /\ Unpin(t)
    /\ UNCHANGED <<chan, hand, pc, reg, garb, hi, fresh>>

PollThread(t) ==
    \/ SendPin(t) \/ PollDropPin(t)
    \/ PollRecvPin(t) \/ PollBorrowPin(t) \/ PollBorrowCheck(t)
    \/ Step(t)

NextPoll ==
    \/ \E t \in Threads : SendPin(t)
    \/ \E t \in Threads : SendSwap(t)
    \/ \E t \in Threads : SendDefer(t)
    \/ \E t \in Threads : PollDropPin(t)
    \/ \E t \in Threads : DropSwap(t)
    \/ \E t \in Threads : DropDefer(t)
    \/ \E t \in Threads : DropFlush(t)
    \/ \E t \in Threads : DropUnpin(t)
    \/ \E t \in Threads : PollRecvPin(t)
    \/ \E t \in Threads : RecvLoad(t)
    \/ \E t \in Threads : RecvClone(t)
    \/ \E t \in Threads : PollBorrowPin(t)
    \/ \E t \in Threads : BorrowLoad(t)
    \/ \E t \in Threads : PollBorrowCheck(t)
    \/ TryAdvance
    \/ Collect

\* Every thread keeps being scheduled: the writer's loop and the readers'
\* loops run on their own threads, which the tests join.
SpecPoll ==
    /\ InitPoll /\ [][NextPoll]_vars
    /\ \A t \in Threads : WF_vars(PollThread(t))

\* ---------------------------------------------------- reclamation liveness
\* The channel with every thread holding a Receiver, and try_advance and
\* collect repeated fairly: an advance that is possible while garbage is
\* queued is eventually made, and expired garbage is eventually collected.
InitLive ==
    /\ \E withValue \in BOOLEAN : InitChannel(withValue)
    /\ rx = [t \in Threads |-> TRUE]
    /\ InitRest

NextLive ==
    \/ \E t \in Threads : SendPin(t)
    \/ \E t \in Threads : SendSwap(t)
    \/ \E t \in Threads : SendDefer(t)
    \/ \E t \in Threads : DropPin(t)
    \/ \E t \in Threads : DropSwap(t)
    \/ \E t \in Threads : DropDefer(t)
    \/ \E t \in Threads : DropFlush(t)
    \/ \E t \in Threads : DropUnpin(t)
    \/ \E t \in Threads : BorrowPin(t)
    \/ \E t \in Threads : BorrowLoad(t)
    \/ \E t \in Threads : \E i \in 1..MaxBorrows : DropBorrow(t, i)
    \/ TryAdvance
    \/ Collect

SpecLive ==
    /\ InitLive /\ [][NextLive]_vars
    /\ WF_vars(TryAdvance /\ queue # {})
    /\ WF_vars(Collect)

\* --------------------------------------------- retirement epochs, recorded
\* The same channel with the global epoch of every swap recorded in swapEpoch,
\* so that the tag a retired value gets can be compared with it.

\* send, line 120, with the swap's epoch recorded.
SendSwapTagged(t) ==
    /\ pc[t] = "s_swap"
    /\ mem' = [mem EXCEPT ![NewAddr] = "live"]
    /\ val' = [val EXCEPT ![NewAddr] = count]
    /\ slot' = NewAddr
    /\ reg' = [reg EXCEPT ![t] = slot]
    /\ hazard' = Swapped(slot)
    /\ swapEpoch' = SwappedAt(slot)
    /\ pc' = [pc EXCEPT ![t] = "s_defer"]
    /\ UNCHANGED <<hand, guardCount, localEpoch, garb, held, seen>>

\* Drop for Sender, line 80, with the swap's epoch recorded.
DropSwapTagged(t) ==
    /\ pc[t] = "d_swap"
    /\ slot' = Null
    /\ reg' = [reg EXCEPT ![t] = slot]
    /\ hazard' = Swapped(slot)
    /\ swapEpoch' = SwappedAt(slot)
    /\ pc' = [pc EXCEPT ![t] = "d_defer"]
    /\ UNCHANGED <<mem, val, hand, guardCount, localEpoch, garb, held, seen>>

NextTag ==
    \/ \E t \in Threads : SendPin(t)
    \/ \E t \in Threads : SendSwapTagged(t)
    \/ \E t \in Threads : SendDefer(t)
    \/ \E t \in Threads : DropPin(t)
    \/ \E t \in Threads : DropSwapTagged(t)
    \/ \E t \in Threads : DropDefer(t)
    \/ \E t \in Threads : DropFlush(t)
    \/ \E t \in Threads : DropUnpin(t)
    \/ \E t \in Threads : RecvPin(t)
    \/ \E t \in Threads : RecvLoad(t)
    \/ \E t \in Threads : RecvClone(t)
    \/ \E t \in Threads : BorrowPin(t)
    \/ \E t \in Threads : BorrowLoad(t)
    \/ \E t \in Threads : \E i \in 1..MaxBorrows : DropBorrow(t, i)
    \/ TryAdvance
    \/ Collect

SpecTag == InitLive /\ [][NextTag]_vars

\* ------------------------------------------------------------------ claims
Borrowed == {<<t, i>> \in Threads \X (1..MaxBorrows) : i <= Len(borrows[t])}

\* C1: a Borrow made while v was the current value keeps dereferencing to v,
\* and v is not freed while the Borrow lives, whatever sends, Sender or
\* Receiver destructions and try_advance/collect steps happen meanwhile.
C1_BorrowFrozen ==
    \A b \in Borrowed :
        /\ mem[borrows[b[1]][b[2]]] = "live"
        /\ Reads(borrows[b[1]][b[2]]) = {snap[b[1]][b[2]]}

\* C1 witness: a Borrow of a value that has since been replaced and retired,
\* with the Sender and every Receiver destroyed, all sends done, another value
\* already freed and the global epoch moved past the Borrow's pin.
C1_Witness ==
    \E b \in Borrowed :
        /\ ~tx /\ \A u \in Threads : ~rx[u]
        /\ count = MaxSends
        /\ \E g \in queue : g.ptr = borrows[b[1]][b[2]]
        /\ \E a \in Addrs : mem[a] = "freed"
        /\ globalEpoch > localEpoch[b[1]]

DropPcs == {"d_swap", "d_defer", "d_flush", "d_unpin"}
Returns(t) == pc[t] \in {"r_load", "r_clone"} /\ pc'[t] = "idle"

\* C2: once the Sender has been destroyed the Slot stays empty, every recv()
\* that reads the Slot from then on returns None and no borrow() yields a Borrow.
C2_EmptyAfterDrop ==
    [][~tx =>
        /\ ~tx' /\ slot = Null /\ slot' = Null
        /\ \A t \in Threads :
              /\ (pc[t] \in {"r_load", "b_load"} /\ pc'[t] # pc[t])
                     => (pc'[t] = "idle" /\ res'[t] = None)
              /\ Len(borrows'[t]) <= Len(borrows[t])]_vars

\* C2 witness: the Sender is gone, a thread that had received a value has
\* since been answered None by a recv(), and another borrow() is in progress.
C2_Witness ==
    /\ ~tx
    /\ \E t \in Threads : res[t] = None /\ hi[t] > 0 /\ pc[t] = "b_load"

\* The value send(vn) published, n = count; v0 when nothing was sent.
Published == count > 0 \/ mem[1] # "unalloc"

C4_RecvMonotonic == [][\A t \in Threads : hi'[t] >= hi[t]]_vars

\* C4 witness: a thread whose recv() returned v1 has loaded the slot again
\* while the writer is publishing, and is about to return a later value.
C4_Witness ==
    \E t \in Threads :
        /\ pc[t] = "r_clone" /\ hi[t] = 1 /\ val[reg[t]] > hi[t]
        /\ pc[Writer] \in {"s_swap", "s_defer"}

\* C5: a retired value is freed only from a Garbage Queue entry at least two
\* epochs behind the global epoch, after it has left the Slot, and when no
\* participant pinned since before it left the Slot is still pinned.
C5_GracePeriod ==
    [][\A a \in Addrs :
          (mem[a] = "live" /\ mem'[a] = "freed") =>
              /\ \E g \in queue : g.ptr = a /\ globalEpoch' - g.epoch >= 2
              /\ hazard[a] = {}
              /\ slot # a]_vars

\* C5 witness: a value has been freed whose last holder pinned before it was
\* swapped out, while another participant is pinned and holds a Borrow.
C5_Witness ==
    \E a \in Addrs :
        /\ mem[a] = "freed"
        /\ \E t \in Threads : hi[t] = val[a] /\ res[t] = Some(val[a])
        /\ \E t \in Threads : Pinned(t) /\ Len(borrows[t]) > 0

\* C6: while a thread holds a Borrow, its own further pins and unpins leave
\* its participant active and its local epoch where it was, and what it
\* borrowed is not freed.
C6_BorrowKeepsPin ==
    [][\A t \in Threads :
          /\ Len(borrows'[t]) > 0 => guardCount'[t] > 0
          /\ (Len(borrows[t]) > 0 /\ Len(borrows'[t]) > 0) =>
                 localEpoch'[t] = localEpoch[t]
          /\ \A i \in 1..Len(borrows[t]) :
                 Len(borrows'[t]) > 0 => mem'[borrows[t][i]] # "freed"]_vars

\* C6 witness: the writer thread holds a Borrow taken one epoch ago and is
\* inside the Sender's destruction, under a second guard of its participant.
C6_Witness ==
    /\ Len(borrows[Writer]) > 0 /\ guardCount[Writer] > 1
    /\ pc[Writer] = "d_unpin"
    /\ globalEpoch > localEpoch[Writer]

Rank(p) ==
    CASE p = "idle" -> 0
      [] p \in {"s_swap", "d_swap", "r_load", "b_load"} -> 1
      [] p \in {"s_defer", "d_defer", "r_clone"} -> 2
      [] p = "d_flush" -> 3
      [] p = "d_unpin" -> 4

\* C7: a thread inside send(), recv(), borrow() or the Sender's destruction
\* can always take its next step, whatever the other threads hold or do, and
\* each step moves it one position closer to the return.
C7_NonBlocking ==
    /\ [](\A t \in Threads : pc[t] # "idle" => ENABLED Step(t))
    /\ [][\A t \in Threads :
             pc'[t] # pc[t] =>
                 (pc'[t] = "idle" \/ Rank(pc'[t]) = Rank(pc[t]) + 1)]_vars

\* C7 witness: the Sender's destruction has flushed and is about to return
\* while the writer thread and another thread each hold a Borrow.
C7_Witness ==
    /\ pc[Writer] = "d_unpin"
    /\ Len(borrows[Writer]) > 0
    /\ \E t \in Threads \ {Writer} : Len(borrows[t]) > 0

\* C10 as stated: when the Sender's destruction returns and no other
\* participant is pinned, the value it retired has been reclaimed.
C10_ReclaimedAtReturn ==
    (/\ pc[Writer] = "d_unpin" /\ reg[Writer] # Null
     /\ \A t \in Threads \ {Writer} : ~Pinned(t))
        => mem[reg[Writer]] = "freed"

\* C10 amended: when the Sender's destruction returns, the Slot is empty, the
\* thread-local bag has been flushed, and the value the destruction retired is
\* in the global garbage queue, at most one epoch old and not yet reclaimed.
C10_FlushedNotReclaimed ==
    pc[Writer] = "d_unpin" =>
        /\ slot = Null /\ bag[Writer] = {}
        /\ reg[Writer] # Null =>
               /\ mem[reg[Writer]] = "live"
               /\ \E g \in queue : g.ptr = reg[Writer] /\ globalEpoch - g.epoch <= 1

\* C10 witness: the destruction is about to return having retired a value,
\* no other participant is pinned, and its flush has freed older garbage.
C10_Witness ==
    /\ pc[Writer] = "d_unpin" /\ reg[Writer] # Null
    /\ \A t \in Threads \ {Writer} : ~Pinned(t)
    /\ \E a \in Addrs : mem[a] = "freed"

\* C8 as stated: a reader's poll loop ends on exactly N, the last value sent.
C8_TerminalIsLast ==
    \A t \in Readers :
        (pc[t] = "idle" /\ ~Polling(t)) => res[t] = Some(MaxSends)

\* C8 amended: every polling reader eventually stops, on Some(N) or on None
\* (the Sender was destroyed before the reader saw N), and no reader ever
\* observes a value greater than the largest value sent so far.
C8_PollTerminal ==
    /\ \A t \in Readers :
          <>[](pc[t] = "idle" /\ res[t] \in {Some(MaxSends), None})
    /\ [](\A t \in Readers : res[t].kind = "some" => res[t].v <= count)

\* C8 witness: the writer has sent 1..N and is destroyed, and a reader's loop
\* has ended on Some(N).
C8_Witness ==
    /\ ~tx /\ count = MaxSends
    /\ \E t \in Readers : pc[t] = "idle" /\ res[t] = Some(MaxSends)

Retired(a) == mem[a] = "live" /\ ((\E t \in Threads : a \in bag[t]) \/ (\E g \in queue : g.ptr = a))
Unborrowed(a) == \A b \in Borrowed : borrows[b[1]][b[2]] # a
NobodyStaysPinned == \A t \in Threads : []<>(~Pinned(t))
EpochCapped == globalEpoch = MaxEpoch

\* C9 as stated: once no Borrow references a retired value and no participant
\* stays pinned forever, fair try_advance/collect eventually frees the value
\* (or the model's epoch counter reaches its cap first).
C9_RetiredEventuallyFreed ==
    NobodyStaysPinned =>
        \A a \in Addrs :
            (Retired(a) /\ Unborrowed(a)) ~> (mem[a] = "freed" \/ EpochCapped)

\* C9 amended: the same, for a retired value that has reached the global
\* garbage queue, and for every retired value once the Sender is destroyed
\* (its flush pushes the writer's thread-local bag); until then a value
\* retired by send() stays in the thread-local bag, out of collect's reach.
C9_QueuedEventuallyFreed ==
    NobodyStaysPinned =>
        \A a \in Addrs :
            (Retired(a) /\ Unborrowed(a) /\ (~tx \/ \E g \in queue : g.ptr = a))
                ~> (mem[a] = "freed" \/ EpochCapped)

\* C9 witness: a value retired by send() sat in the writer's bag, the
\* Sender's destruction flushed it, and it has been freed by later advances
\* with nobody pinned and the epoch cap not reached.
C9_Witness ==
    /\ count >= 1 /\ ~tx /\ pc[Writer] = "idle"
    /\ \A t \in Threads : ~Pinned(t)
    /\ \A a \in Addrs : mem[a] # "live"
    /\ \E a \in Addrs : mem[a] = "freed"
    /\ ~EpochCapped

Garbage == {a \in Addrs : Retired(a)}
Allocated == {a \in Addrs : mem[a] # "unalloc"}
Quiet == pc[Writer] = "idle" /\ \A t \in Threads : ~Pinned(t)

C12_PinBalance ==
    \A t \in Threads :
        guardCount[t] = Len(borrows[t]) + (IF pc[t] = "idle" THEN 0 ELSE 1)

\* C12 witness: a thread that holds a Borrow has since had a recv() return a
\* value and another return empty, and is idle with exactly the Borrow's pin.
C12_Witness ==
    \E t \in Threads :
        /\ pc[t] = "idle" /\ Len(borrows[t]) = 1 /\ guardCount[t] = 1
        /\ res[t] = None /\ hi[t] > 0

\* A first value has been stored in the Slot, by new(v) or by a send's swap.
HasPublished == mem[1] # "unalloc"
\* The Sender's destruction has swapped the Slot to empty.
SwappedOut == ~tx \/ pc[Writer] \in {"d_defer", "d_flush", "d_unpin"}
Loads(t) == pc[t] \in {"r_load", "b_load"} /\ pc'[t] # pc[t]

\* C13: a recv() or borrow() finds the Slot empty exactly when no value was
\* ever published or the Sender's destruction has emptied it; otherwise,
\* also when it races with a send(), it gets the value before that send's
\* swap or the value after it, and recv() returns the value it loaded.
C13_EmptyOnlyUnpublishedOrDropped ==
    [][\A t \in Threads :
          /\ Loads(t) =>
                /\ (slot = Null) <=> (~HasPublished \/ SwappedOut)
                /\ slot # Null =>
                      val[slot] = IF pc[Writer] = "s_swap" THEN count - 1 ELSE count
                /\ IF slot = Null
                     THEN res'[t] = None /\ borrows'[t] = borrows[t] /\ pc'[t] = "idle"
                     ELSE IF pc[t] = "r_load"
                            THEN reg'[t] = slot /\ pc'[t] = "r_clone"
                            ELSE borrows'[t] = Append(borrows[t], slot)
          /\ (pc[t] = "r_clone" /\ pc'[t] = "idle") => res'[t] = Some(val[reg[t]])]_vars

\* C13 witness: a recv() loaded the value before a concurrent send's swap,
\* the send has since swapped it out, and the recv() is about to return it.
C13_Witness ==
    \E t \in Threads \ {Writer} :
        /\ pc[t] = "r_clone" /\ pc[Writer] = "s_defer"
        /\ reg[t] = reg[Writer] /\ reg[t] # slot /\ count = MaxSends

Flushes == pc[Writer] = "d_flush" /\ pc'[Writer] = "d_unpin"

\* C14: the global epoch only ever moves by one step, and only when every
\* active participant's local epoch equals it; when none lags, try_advance
\* (called on its own or by the Sender's flush) does move it by one, up to the
\* model's cap, and when some active participant lags it changes nothing.
C14_TryAdvance ==
    /\ [][globalEpoch' # globalEpoch =>
             (CanAdvance /\ globalEpoch' = globalEpoch + 1)]_vars
    /\ [][(Flushes /\ CanAdvance /\ ~EpochCapped) =>
             globalEpoch' = globalEpoch + 1]_vars
    /\ []((CanAdvance /\ ~EpochCapped) =>
             ENABLED (TryAdvance /\ globalEpoch' = globalEpoch + 1))

\* C14 witness: the Sender's flush ran while another participant was lagging
\* one epoch behind, and left the global epoch where it was (the bag it sealed
\* carries the current epoch).
C14_Witness ==
    /\ pc[Writer] = "d_unpin" /\ globalEpoch > 0
    /\ \E t \in Threads \ {Writer} : Pinned(t) /\ localEpoch[t] = globalEpoch - 1
    /\ \E g \in queue : g.ptr = reg[Writer] /\ g.epoch = globalEpoch

\* The participants that hold the pointer a: a recv() that loaded it and is
\* still cloning, or a Borrow of it.
Holders(a) ==
    {t \in Threads : (pc[t] = "r_clone" /\ reg[t] = a)
                        \/ (\E i \in 1..Len(borrows[t]) : borrows[t][i] = a)}

\* C15 as stated: the epoch tag stored with a retired value is the global
\* epoch at the time of the swap that removed it from the Slot.
C15_TagIsSwapEpoch ==
    \A g \in queue : g.epoch = swapEpoch[g.ptr]

\* C15 amended: the tag is the global epoch at which the thread-local bag
\* holding the retired value was sealed, which is the epoch of the swap or a
\* later one (never an older one at which the writer pinned), so the tag is
\* greater than or equal to the local epoch of every participant that loaded
\* the pointer from the Slot.
C15_TagAtLeastSwapEpoch ==
    \A g \in queue :
        /\ g.epoch >= swapEpoch[g.ptr]
        /\ \A t \in hazard[g.ptr] \cup Holders(g.ptr) : localEpoch[t] <= g.epoch

\* C15 witness: a retired value is in the Garbage Queue with a tag later than
\* the epoch of its swap, and a participant that pinned at the swap's epoch
\* and loaded the pointer still borrows it.
C15_Witness ==
    \E g \in queue : \E t \in Threads \ {Writer} :
        /\ g.epoch > swapEpoch[g.ptr] /\ swapEpoch[g.ptr] > 0
        /\ t \in Holders(g.ptr) /\ localEpoch[t] = swapEpoch[g.ptr]

\* The places of the Garbage Queue (thread-local bags and global queue) a is in.
Placements(a) ==
    Cardinality({t \in Threads : a \in bag[t]}) + Cardinality({g \in queue : g.ptr = a})
\* The writer has swapped a out and not yet passed it to defer_destroy.
BeingRetired(a) == pc[Writer] \in {"s_defer", "d_defer"} /\ reg[Writer] = a

\* C16: every published value is placed in the Garbage Queue exactly once, by
\* the send() or Sender destruction whose swap removed it from the Slot: it
\* is in at most one place, never while it is the Slot's value or after it
\* was freed, a removed value is in it as soon as that call's defer_destroy
\* is done, an empty previous Slot puts nothing in it, and after the Sender's
\* destruction every value ever published is in it or already freed.
C16_RetiredExactlyOnce ==
    /\ \A a \in Addrs :
          /\ Placements(a) <= 1
          /\ Placements(a) = 1 => (slot # a /\ mem[a] = "live" /\ ~BeingRetired(a))
          /\ (mem[a] = "live" /\ slot # a /\ ~BeingRetired(a)) => Placements(a) = 1
    /\ \A t \in Threads : bag[t] \subseteq Addrs
    /\ \A g \in queue : g.ptr \in Addrs
    /\ ~tx => (slot = Null /\ \A a \in Allocated : Placements(a) = 1 \/ mem[a] = "freed")

\* C16 witness: the Sender is destroyed after all its sends on a channel
\* created with a value; every published value was retired, one is already
\* freed and another still waits in the Garbage Queue.
C16_Witness ==
    /\ ~tx /\ count = MaxSends /\ Cardinality(Allocated) = MaxSends + 1
    /\ \E a \in Addrs : mem[a] = "freed"
    /\ \E a \in Addrs : Placements(a) = 1

\* A step that ran collect(): the Sender's flush, or a collect() on its own
\* that took something out of the queue.
Collects == Flushes \/ (pc' = pc /\ queue' # queue /\ queue' \subseteq queue)

\* C17: after collect() the Garbage Queue holds no entry two or more epochs
\* behind the global epoch; an entry leaves the queue only by being freed,
\* two or more epochs behind the epoch of that moment; entries less than two
\* epochs behind, and what is still in a thread-local bag, are not freed.
C17_CollectTwoEpochs ==
    [][/\ Collects => Expired(queue', globalEpoch') = {}
       /\ \A g \in queue :
             IF g \in queue'
               THEN mem'[g.ptr] = mem[g.ptr]
               ELSE globalEpoch' - g.epoch >= 2 /\ mem'[g.ptr] = "freed"
       /\ \A g \in queue : globalEpoch' - g.epoch < 2 => g \in queue'
       /\ \A t \in Threads : \A a \in bag[t] : mem'[a] = "live"]_vars

\* C17 witness: after two advances a collect() has freed one retired value
\* and left in the queue another that is only one epoch behind.
C17_Witness ==
    /\ \E a \in Addrs : mem[a] = "freed"
    /\ \E g \in queue : globalEpoch - g.epoch = 1
    /\ Expired(queue, globalEpoch) = {}
    /\ globalEpoch >= 2

\* A step of try_advance or collect called on its own, by any thread.
EngineStep == pc' = pc /\ (globalEpoch' # globalEpoch \/ queue' # queue)

\* C18: try_advance and collect can run at any point; a step of theirs leaves
\* the Slot, the handles, every participant's guards and local epoch, every
\* result and every Borrow as they are, and frees nothing that the Slot, a
\* recv() in progress or a Borrow points to, so that what recv(), borrow()
\* and a Borrow dereference return is the payload stored with the pointer.
C18_EngineFrame ==
    /\ [][EngineStep =>
             /\ UNCHANGED <<slot, val, tx, rx, count, reg, guardCount, localEpoch>>
             /\ UNCHANGED <<borrows, snap, res, hi, uaf>>
             /\ \A a \in Addrs :
                   (a = slot \/ Holders(a) # {}) => mem'[a] = "live"]_vars
    /\ [](ENABLED TryAdvance /\ ENABLED Collect)
    /\ [](\A a \in Addrs : (a = slot \/ Holders(a) # {}) => Reads(a) = {val[a]})

\* C18 witness: while a recv() is cloning a value that has since been retired
\* and queued, the epoch has advanced past its pin and a collect() has freed
\* an older value.
C18_Witness ==
    \E t \in Threads :
        /\ pc[t] = "r_clone" /\ reg[t] # slot
        /\ \E g \in queue : g.ptr = reg[t]
        /\ \E a \in Addrs : mem[a] = "freed"
        /\ globalEpoch > localEpoch[t]

\* C19: the global epoch never decreases, and the local epoch of every active
\* participant is the global epoch or exactly one less.
C19_EpochBounds ==
    /\ [][globalEpoch' >= globalEpoch]_vars
    /\ [](\A t \in Threads :
             Pinned(t) => localEpoch[t] \in {globalEpoch, globalEpoch - 1})

\* C19 witness: after two advances one participant, holding a Borrow, is one
\* epoch behind the global epoch while another is pinned at the global epoch.
C19_Witness ==
    \E t, u \in Threads :
        /\ Pinned(t) /\ Len(borrows[t]) > 0 /\ localEpoch[t] = globalEpoch - 1
        /\ Pinned(u) /\ localEpoch[u] = globalEpoch
        /\ globalEpoch >= 2

\* C20: a published value is freed at most once (a freed value stays freed
\* and is in no bag or queue entry that could free it again, and only a live
\* value is freed), and it is not freed while it is the Slot's current value
\* or while a recv() that loaded it is between its load and its return.
C20_FreedOnceNotInUse ==
    /\ [](\A a \in Addrs :
             /\ a = slot => mem[a] = "live"
             /\ (\E t \in Threads : pc[t] = "r_clone" /\ reg[t] = a) => mem[a] = "live"
             /\ mem[a] = "freed" => Placements(a) = 0)
    /\ [][\A a \in Addrs :
             /\ mem[a] = "freed" => mem'[a] = "freed"
             /\ (mem'[a] = "freed" /\ mem[a] # "freed") => mem[a] = "live"]_vars

\* C20 witness: a recv() is cloning the last value, which the Sender's
\* destruction has swapped out and queued, while an earlier value has already
\* been freed and this thread's previous recv() returned a value.
C20_Witness ==
    \E t \in Threads :
        /\ pc[t] = "r_clone" /\ Placements(reg[t]) = 1 /\ slot = Null
        /\ hi[t] > 0 /\ val[reg[t]] = MaxSends
        /\ \E a \in Addrs : mem[a] = "freed"

====
